---- MODULE Spec2Model ----
(***************************************************************************)
(* Model of the assoc_threadlocal crate (src/src/lib.rs): the trait        *)
(* AssocThreadLocal<T, TAG> with its accessors, and the per-thread static  *)
(* ASSOCIATED_THREADLOCAL that every expansion of assoc_threadlocal!       *)
(* declares.                                                               *)
(***************************************************************************)
EXTENDS Integers, Sequences, FiniteSets, TLC

\* ------------------------------------------------------------------ bounds
MaxThreads == 2
MaxOps == 3

Threads == 1 .. MaxThreads

\* ------------------------------------------------- the impls of the program
\* One Association per expansion of assoc_threadlocal!: (T, TAG, TARGET).
TestType1Str == [T |-> "TestType1", TAG |-> "()", TARGET |-> "&str"]
TestType2Str == [T |-> "TestType2", TAG |-> "()", TARGET |-> "&str"]
TestType2U32 == [T |-> "TestType2", TAG |-> "()", TARGET |-> "u32"]
ExampleHello == [T |-> "Example", TAG |-> "Hello", TARGET |-> "&str"]
ExampleExplain == [T |-> "Example", TAG |-> "ExplainType", TARGET |-> "&str"]

Assocs == {TestType1Str, TestType2Str, TestType2U32, ExampleHello, ExampleExplain}

\* The sets of impls that are compiled together: the impls of one owner type.
Programs == {{a \in Assocs : a.T = T} : T \in {a.T : a \in Assocs}}

U32Init == 42
\* A u32 other than the initial one.
U32Other == U32Init + 1

\* $INIT of each expansion.
INIT(a) ==
  CASE a = TestType1Str -> "This is the first test type"
    [] a = TestType2Str -> "This is the second test type"
    [] a = TestType2U32 -> U32Init
    [] a = ExampleHello -> "Hello World!"
    [] a = ExampleExplain -> "This is 'struct Example'"

\* Values of type $TARGET a caller passes to set_threadlocal.
Values(a) ==
  IF a.TARGET = "u32"
  THEN {INIT(a), U32Other}
  ELSE {INIT(a), "set to a new value"}

\* Instances of the owner type T handed to the instance-based accessors.
Instances == {"this1", "this2"}

\* ------------------------------------------------------------------- state
VARIABLES
  impls,                   \* the impls of AssocThreadLocal the program defines
  status,                  \* thread -> "unstarted" | "running" | "ended"
  ASSOCIATED_THREADLOCAL,  \* impl -> set of live cells [thread, value]
  dangling,                \* a raw pointer was dereferenced without a live cell behind it
  foreign,                 \* a raw pointer was dereferenced by a thread other than the cell's owner
  lastSet,                 \* history: running thread -> impl -> <<[value, form] of its last set>>
  lastGet,                 \* history: running thread -> impl -> <<last value read since its last set>>
  touched,                 \* history: running thread -> impls it has called an accessor of
  written,                 \* history: thread -> impl -> values the thread has ever set
  ops                      \* number of accessor calls made

vars == <<impls, status, ASSOCIATED_THREADLOCAL, dangling, foreign, lastSet,
          lastGet, touched, written, ops>>

Init ==
  /\ impls \in Programs
  /\ status = [t \in Threads |-> "unstarted"]
  /\ ASSOCIATED_THREADLOCAL = [a \in impls |-> {}]
  /\ dangling = FALSE
  /\ foreign = FALSE
  /\ lastSet = [t \in Threads |-> [a \in impls |-> <<>>]]
  /\ lastGet = [t \in Threads |-> [a \in impls |-> <<>>]]
  /\ touched = [t \in Threads |-> {}]
  /\ written = [t \in Threads |-> [a \in impls |-> {}]]
  /\ ops = 0

\* ------------------------------------------------------------ thread_local!
\* The cells of thread t in the static of impl a.
CellsOf(tl, t, a) == {c \in tl[a] : c.thread = t}

\* Variant: a new thread's cell starts from a value another thread's cell holds.
LazyInit_Inherit(tl, t, a) ==
  IF CellsOf(tl, t, a) # {}
  THEN tl
  ELSE [tl EXCEPT ![a] = @ \cup
          {[thread |-> t,
            value |-> IF tl[a] = {} THEN INIT(a) ELSE (CHOOSE c \in tl[a] : TRUE).value]}]

\* Variant: the initialiser runs on every access.
LazyInit_Reinit(tl, t, a) ==
  [tl EXCEPT ![a] = (@ \ CellsOf(tl, t, a)) \cup {[thread |-> t, value |-> INIT(a)]}]

\* LocalKey::with on first use in a thread: the initialiser runs once.
LazyInit(tl, t, a) ==
  IF CellsOf(tl, t, a) # {}
  THEN tl
  ELSE [tl EXCEPT ![a] = @ \cup {[thread |-> t, value |-> INIT(a)]}]

\* Variant: a plain static, one cell for the whole process (the first thread's).
CellPtr_Static(t, a) == [owner |-> 1, assoc |-> a]

\* Variant: the static is shared by the impls that differ only in $TAG.
CellPtr_NoTag(t, a) ==
  [owner |-> t, assoc |-> CHOOSE b \in Assocs : b.T = a.T /\ b.TARGET = a.TARGET]

\* Variant: the static is shared by the impls that differ only in $TARGET.
CellPtr_NoTarget(t, a) ==
  [owner |-> t, assoc |-> CHOOSE b \in Assocs : b.T = a.T /\ b.TAG = a.TAG]

\* The raw pointer the closure returns: the address of thread t's cell of impl a.
CellPtr(t, a) == [owner |-> t, assoc |-> a]

\* Variant: the pointer is handed out without running the initialiser.
the_threadlocal_NoInit(tl, t, a) == [tl |-> tl, ptr |-> CellPtr(t, a)]

\* Self::the_threadlocal() called by thread t: the statics after the call, and
\* the pointer returned.
the_threadlocal(tl, t, a) == [tl |-> LazyInit(tl, t, a), ptr |-> CellPtr(t, a)]

\* The cells a raw pointer refers to, and whether it may be dereferenced.
Pointee(tl, p) == CellsOf(tl, p.owner, p.assoc)
Live(tl, p) == Pointee(tl, p) # {} /\ status[p.owner] = "running"

\* Variant: the cells outlive their thread.
DropThreadLocals_Leak(tl, t) == tl

\* The thread's statics are released when it ends.
DropThreadLocals(tl, t) == [a \in DOMAIN tl |-> {c \in tl[a] : c.thread # t}]

\* ----------------------------------------------------------------- actions
ThreadStart(t) ==
  /\ status[t] = "unstarted"
  /\ status' = [status EXCEPT ![t] = "running"]
  /\ UNCHANGED <<impls, ASSOCIATED_THREADLOCAL, dangling, foreign, lastSet, lastGet,
                 touched, written, ops>>

ThreadEnd(t) ==
  /\ status[t] = "running"
  /\ status' = [status EXCEPT ![t] = "ended"]
  /\ ASSOCIATED_THREADLOCAL' = DropThreadLocals(ASSOCIATED_THREADLOCAL, t)
  /\ lastSet' = [lastSet EXCEPT ![t] = [a \in impls |-> <<>>]]
  /\ lastGet' = [lastGet EXCEPT ![t] = [a \in impls |-> <<>>]]
  /\ touched' = [touched EXCEPT ![t] = {}]
  /\ UNCHANGED <<impls, dangling, foreign, written, ops>>

\* The value Cell::take leaves behind.
Default(a) == IF a.TARGET = "u32" THEN 0 ELSE ""

\* Variant: (*ptr).take() in place of (*ptr).get().
Get_Take(t, a) ==
  /\ status[t] = "running"
  /\ ops < MaxOps
  /\ ops' = ops + 1
  /\ touched' = [touched EXCEPT ![t] = @ \cup {a}]
  /\ UNCHANGED <<impls, status, lastSet, written>>
  /\ LET r == the_threadlocal(ASSOCIATED_THREADLOCAL, t, a)
         live == Live(r.tl, r.ptr)
     IN /\ \E v \in (IF live THEN {c.value : c \in Pointee(r.tl, r.ptr)} ELSE Values(a)) :
             lastGet' = [lastGet EXCEPT ![t][a] = <<v>>]
        /\ ASSOCIATED_THREADLOCAL' =
             [r.tl EXCEPT ![r.ptr.assoc] =
                (@ \ Pointee(r.tl, r.ptr)) \cup {[thread |-> r.ptr.owner, value |-> Default(a)]}]
        /\ dangling' = (dangling \/ ~live)
        /\ foreign' = (foreign \/ r.ptr.owner # t)

\* unsafe { (*Self::the_threadlocal()).get() }
\* A dereference without a live cell is undefined: any value of the type comes back.
Get(t, a) ==
  /\ status[t] = "running"
  /\ ops < MaxOps
  /\ ops' = ops + 1
  /\ touched' = [touched EXCEPT ![t] = @ \cup {a}]
  /\ UNCHANGED <<impls, status, lastSet, written>>
  /\ LET r == the_threadlocal(ASSOCIATED_THREADLOCAL, t, a)
         live == Live(r.tl, r.ptr)
     IN /\ \E v \in (IF live THEN {c.value : c \in Pointee(r.tl, r.ptr)} ELSE Values(a)) :
             lastGet' = [lastGet EXCEPT ![t][a] = <<v>>]
        /\ ASSOCIATED_THREADLOCAL' = r.tl
        /\ dangling' = (dangling \/ ~live)
        /\ foreign' = (foreign \/ r.ptr.owner # t)

\* unsafe { (*Self::the_threadlocal()).set(value); }, entered by type ("type") or
\* through set_threadlocal_of ("instance").
Set(t, a, value, form) ==
  /\ status[t] = "running"
  /\ ops < MaxOps
  /\ ops' = ops + 1
  /\ touched' = [touched EXCEPT ![t] = @ \cup {a}]
  /\ lastSet' = [lastSet EXCEPT ![t][a] = <<[value |-> value, form |-> form]>>]
  /\ lastGet' = [lastGet EXCEPT ![t][a] = <<>>]
  /\ written' = [written EXCEPT ![t][a] = @ \cup {value}]
  /\ UNCHANGED <<impls, status>>
  /\ LET r == the_threadlocal(ASSOCIATED_THREADLOCAL, t, a)
         live == Live(r.tl, r.ptr)
     IN /\ ASSOCIATED_THREADLOCAL' =
             IF live
             THEN [r.tl EXCEPT ![r.ptr.assoc] =
                     (@ \ Pointee(r.tl, r.ptr)) \cup {[thread |-> r.ptr.owner, value |-> value]}]
             ELSE r.tl
        /\ dangling' = (dangling \/ ~live)
        /\ foreign' = (foreign \/ r.ptr.owner # t)

get_threadlocal(t, a) == Get(t, a)

set_threadlocal(t, a, value) == Set(t, a, value, "type")

\* Self::get_threadlocal(): _this is not used.
get_threadlocal_from(t, this, a) == get_threadlocal(t, a)

\* Variant: the value is stored into a copy of the cell, not into the cell.
set_threadlocal_of_Copy(t, this, a, value) ==
  /\ status[t] = "running"
  /\ ops < MaxOps
  /\ ASSOCIATED_THREADLOCAL' = the_threadlocal(ASSOCIATED_THREADLOCAL, t, a).tl
  /\ lastSet' = [lastSet EXCEPT ![t][a] = <<[value |-> value, form |-> "instance"]>>]
  /\ lastGet' = [lastGet EXCEPT ![t][a] = <<>>]
  /\ touched' = [touched EXCEPT ![t] = @ \cup {a}]
  /\ written' = [written EXCEPT ![t][a] = @ \cup {value}]
  /\ ops' = ops + 1
  /\ UNCHANGED <<impls, status, dangling, foreign>>

\* Self::set_threadlocal(value): _this is not used.
set_threadlocal_of(t, this, a, value) == Set(t, a, value, "instance")

Next ==
  \/ \E t \in Threads : ThreadStart(t)
  \/ \E t \in Threads : ThreadEnd(t)
  \/ \E t \in Threads, a \in impls : get_threadlocal(t, a)
  \/ \E t \in Threads, a \in impls : \E value \in Values(a) : set_threadlocal(t, a, value)
  \/ \E t \in Threads, a \in impls : \E this \in Instances : get_threadlocal_from(t, this, a)
  \/ \E t \in Threads, a \in impls : \E this \in Instances, value \in Values(a) :
       set_threadlocal_of(t, this, a, value)

Spec == Init /\ [][Next]_vars

\* ------------------------------------------------------------------ claims
\* A step in which thread t reads impl a, by type or by instance (both run Get).
GetBy(t, a) == ops' # ops /\ Get(t, a)

\* A step in which thread t stores value into impl a, by type or by instance
\* (both run Set).
SetBy(t, a, value) == ops' # ops /\ \E form \in {"type", "instance"} : Set(t, a, value, form)

\* Thread t's cells of impl a, now and after the step.
Cell(t, a) == CellsOf(ASSOCIATED_THREADLOCAL, t, a)
CellNext(t, a) == CellsOf(ASSOCIATED_THREADLOCAL', t, a)

OnlyTagDiffers(a, b) == a.T = b.T /\ a.TARGET = b.TARGET /\ a.TAG # b.TAG
OnlyTargetDiffers(a, b) == a.T = b.T /\ a.TAG = b.TAG /\ a.TARGET # b.TARGET

\* C1: a get by a thread that has not set the impl before returns the impl's
\* initial value, whatever the other threads (running or ended) have set:
\* whenever a thread has read an impl it never set, what it read is INIT.
C1_FirstGetIsInit ==
  \A t \in Threads : \A a \in impls :
    (lastSet[t][a] = <<>> /\ lastGet[t][a] # <<>>) => lastGet[t][a] = <<INIT(a)>>

\* C1 witness: a thread read the initial value, never having set the impl, after
\* another thread set a different value on the same impl and ended.
C1_Witness ==
  \E t \in Threads, u \in Threads : \E a \in impls :
    /\ t # u
    /\ status[u] = "ended"
    /\ written[u][a] \ {INIT(a)} # {}
    /\ lastSet[t][a] = <<>>
    /\ lastGet[t][a] = <<INIT(a)>>

\* C2: a get returns the value of the thread's most recent set on the impl,
\* also when that set was the thread's first touch of the impl: whenever a
\* thread has read an impl since its last set, what it read is the value set.
C2_LastWriteWins ==
  \A t \in Threads : \A a \in impls :
    (lastSet[t][a] # <<>> /\ lastGet[t][a] # <<>>) =>
      lastGet[t][a] = <<lastSet[t][a][1].value>>

\* C2 witness: the only two calls made were a set of a non-initial value (the
\* thread's first touch) and then a get that returned it.
C2_Witness ==
  \E t \in Threads : \E a \in impls :
    /\ ops = 2
    /\ touched[t] = {a}
    /\ \A u \in Threads \ {t} : touched[u] = {} /\ \A b \in impls : written[u][b] = {}
    /\ lastSet[t][a] # <<>>
    /\ lastSet[t][a][1].value # INIT(a)
    /\ lastGet[t][a] = <<lastSet[t][a][1].value>>

\* C3: under every interleaving a thread's cell holds what that thread itself
\* set last (the initial value if it set nothing), so no set by another thread
\* changes what it reads; every value a thread has read is the initial value
\* or a value that thread set itself.
C3_ThreadIsolation ==
  \A t \in Threads : \A a \in impls :
    /\ Cell(t, a) # {} =>
         Cell(t, a) = {[thread |-> t,
                        value |-> IF lastSet[t][a] = <<>> THEN INIT(a)
                                  ELSE lastSet[t][a][1].value]}
    /\ lastGet[t][a] # <<>> =>
         \E v \in {INIT(a)} \cup written[t][a] : lastGet[t][a] = <<v>>

\* C3 witness: two running threads on one impl, one holding a value it set, the
\* other having read the initial value without ever setting anything.
C3_Witness ==
  \E t \in Threads, u \in Threads : \E a \in impls :
    /\ t # u
    /\ status[t] = "running" /\ status[u] = "running"
    /\ lastSet[t][a] # <<>>
    /\ lastSet[t][a][1].value # INIT(a)
    /\ Cell(t, a) = {[thread |-> t, value |-> lastSet[t][a][1].value]}
    /\ written[u][a] = {}
    /\ lastGet[u][a] = <<INIT(a)>>

\* C4: for two impls that differ only in TAG, a set on one leaves the calling
\* thread's cell of the other unchanged, and a later get on the other returns
\* what it returned before.
C4_TagIndependence ==
  [][\A t \in Threads : \A a \in impls, b \in impls :
       OnlyTagDiffers(a, b) =>
         /\ \A value \in Values(a) : SetBy(t, a, value) => CellNext(t, b) = Cell(t, b)
         /\ (GetBy(t, b) /\ lastGet[t][b] # <<>>) => lastGet'[t][b] = lastGet[t][b]]_vars

\* C4 witness: a thread holds a non-initial value it set on one impl and has
\* read the initial value of the impl that differs only in TAG.
C4_Witness ==
  \E t \in Threads : \E a \in impls, b \in impls :
    /\ OnlyTagDiffers(a, b)
    /\ ops = 3
    /\ lastSet[t][a] # <<>>
    /\ lastSet[t][a][1].value # INIT(a)
    /\ lastSet[t][b] = <<>>
    /\ lastGet[t][b] = <<INIT(b)>>

\* C5: for two impls that differ only in TARGET, a get on each returns its own
\* initial value, and a set on one leaves the calling thread's value of the
\* other unchanged.
C5_TargetIndependence ==
  [][\A t \in Threads : \A a \in impls, b \in impls :
       OnlyTargetDiffers(a, b) =>
         /\ (GetBy(t, a) /\ lastSet[t][a] = <<>>) => lastGet'[t][a] = <<INIT(a)>>
         /\ \A value \in Values(a) : SetBy(t, a, value) => CellNext(t, b) = Cell(t, b)
         /\ (GetBy(t, b) /\ lastGet[t][b] # <<>>) => lastGet'[t][b] = lastGet[t][b]]_vars

\* C5 witness: a thread holds a non-initial value it set on one impl of
\* TestType2 and has read the initial value of the other.
C5_Witness ==
  \E t \in Threads : \E a \in impls, b \in impls :
    /\ OnlyTargetDiffers(a, b)
    /\ ops = 3
    /\ lastSet[t][a] # <<>>
    /\ lastSet[t][a][1].value # INIT(a)
    /\ Cell(t, a) = {[thread |-> t, value |-> lastSet[t][a][1].value]}
    /\ lastSet[t][b] = <<>>
    /\ lastGet[t][b] = <<INIT(b)>>

\* C6: set_threadlocal_of stores into the calling thread's cell of the impl;
\* get_threadlocal returns what set_threadlocal_of stored and
\* get_threadlocal_from returns what set_threadlocal stored; a step taken with
\* one instance is the step taken with any other instance.
\* (A call by t on a leaves a in touched[t], a set leaves its value in lastSet
\* and a get its result in lastGet: the actions are evaluated on those steps.)
C6_InstanceAccessors ==
  [][ops' # ops =>
       \A t \in Threads : \A a \in impls :
         a \in touched'[t] =>
           /\ (lastSet'[t][a] # <<>> /\ lastGet'[t][a] = <<>>) =>
                \A value \in {lastSet'[t][a][1].value} :
                  (\E this \in Instances : set_threadlocal_of(t, this, a, value)) =>
                    /\ CellNext(t, a) = {[thread |-> t, value |-> value]}
                    /\ \A other \in Instances : set_threadlocal_of(t, other, a, value)
           /\ lastGet'[t][a] # <<>> =>
                /\ (lastSet[t][a] # <<>> /\ lastSet[t][a][1].form = "instance"
                      /\ get_threadlocal(t, a)) =>
                     lastGet'[t][a] = <<lastSet[t][a][1].value>>
                /\ (\E this \in Instances : get_threadlocal_from(t, this, a)) =>
                     /\ (lastSet[t][a] # <<>> /\ lastSet[t][a][1].form = "type") =>
                          lastGet'[t][a] = <<lastSet[t][a][1].value>>
                     /\ \A other \in Instances : get_threadlocal_from(t, other, a)]_vars

\* C6 witness: a get returned the non-initial value stored by set_threadlocal_of.
C6_Witness ==
  \E t \in Threads : \E a \in impls :
    /\ lastSet[t][a] # <<>>
    /\ lastSet[t][a][1].form = "instance"
    /\ lastSet[t][a][1].value # INIT(a)
    /\ lastGet[t][a] = <<lastSet[t][a][1].value>>

\* C7: a get changes no cell, except that it creates the calling thread's cell
\* with the initial value on first touch; two gets with no set in between
\* return the same value.
C7_GetIsPure ==
  [][\A t \in Threads : \A a \in impls :
       GetBy(t, a) =>
         /\ \A u \in Threads : \A b \in impls :
              (u # t \/ b # a) => CellNext(u, b) = Cell(u, b)
         /\ CellNext(t, a) =
              IF Cell(t, a) = {} THEN {[thread |-> t, value |-> INIT(a)]} ELSE Cell(t, a)
         /\ lastGet[t][a] # <<>> => lastGet'[t][a] = lastGet[t][a]]_vars

\* C7 witness: the only two calls made were two gets by one thread on one impl.
C7_Witness ==
  \E t \in Threads : \E a \in impls :
    /\ ops = 2
    /\ touched[t] = {a}
    /\ \A u \in Threads \ {t} : touched[u] = {} /\ \A b \in impls : written[u][b] = {}
    /\ written[t][a] = {}
    /\ lastGet[t][a] = <<INIT(a)>>
    /\ Cell(t, a) = {[thread |-> t, value |-> INIT(a)]}

\* C8: at most one cell per (thread, impl); a cell exists only for a running
\* thread that has called an accessor of the impl, and none for an ended thread.
C8_OneCellPerThread ==
  \A t \in Threads : \A a \in impls :
    /\ Cardinality(Cell(t, a)) <= 1
    /\ Cell(t, a) # {} => (status[t] = "running" /\ a \in touched[t])
    /\ status[t] = "ended" => Cell(t, a) = {}

\* C8 witness: a thread that set a value has ended while another thread holds a cell.
C8_Witness ==
  \E t \in Threads, u \in Threads : \E a \in impls :
    /\ status[t] = "ended"
    /\ written[t][a] # {}
    /\ status[u] = "running"
    /\ Cell(u, a) # {}

\* C9: the accessors never fail: every running thread can call each of them on
\* every impl (while calls remain), no call dereferences a pointer without a
\* live cell, and every value read is the initial value or one the thread set.
C9_NeverFails ==
  /\ ~dangling
  /\ \A t \in Threads : \A a \in impls :
       /\ (status[t] = "running" /\ ops < MaxOps) =>
            /\ ENABLED get_threadlocal(t, a)
            /\ \A value \in Values(a) : ENABLED set_threadlocal(t, a, value)
            /\ \A this \in Instances :
                 /\ ENABLED get_threadlocal_from(t, this, a)
                 /\ \A value \in Values(a) : ENABLED set_threadlocal_of(t, this, a, value)
       /\ lastGet[t][a] # <<>> =>
            \E v \in {INIT(a)} \cup written[t][a] : lastGet[t][a] = <<v>>

\* C9 witness: a thread's first touch of an impl was a set, and a first-touch
\* get on another impl of the program returned a value.
C9_Witness ==
  \E t \in Threads : \E a \in impls, b \in impls :
    /\ a # b
    /\ ops = 2
    /\ lastSet[t][a] # <<>>
    /\ lastGet[t][b] # <<>>

\* C10: through the safe accessors no cell is read or written by a thread
\* other than its owner, nor after its owner has ended.
C10_OwnerOnlyAccess ==
  /\ ~foreign
  /\ ~dangling
  /\ \A a \in impls : \A c \in ASSOCIATED_THREADLOCAL[a] : status[c.thread] = "running"

\* C10 witness: calls were made by two threads, one of which has since ended,
\* and the other still holds cells.
C10_Witness ==
  \E t \in Threads, u \in Threads : \E a \in impls :
    /\ status[t] = "ended"
    /\ written[t][a] # {}
    /\ status[u] = "running"
    /\ lastSet[u][a] # <<>>
    /\ lastGet[u][a] # <<>>

====
